---- MODULE Spec2Model ----
(***************************************************************************)
(* Model of the payments engine of src/main.rs: the per-client Account,   *)
(* the transaction history, the set of open disputes, the router           *)
(* process_transaction with its five handlers, and the stream loop of      *)
(* main.                                                                   *)
(*                                                                         *)
(* A Decimal is the record [m |-> mantissa, e |-> scale] standing for      *)
(* m / 10^e.  Balances are exact integers counted in units of              *)
(* 10^-UnitScale, so that Decimal addition, subtraction and comparison     *)
(* are the integer ones.                                                   *)
(***************************************************************************)
EXTENDS Integers, FiniteSets, Sequences, TLC

\* ---------------------------------------------------------------- bounds
MaxClient == 2
MaxTx == 2
MaxAmount == 2
MaxRecords == 3

\* ------------------------------------------------------ program constants
\* has_valid_precision: amount.scale() <= 4
PrecisionLimit == 4

UnitScale == PrecisionLimit + 1

Clients == 1..MaxClient
TxIds == 1..MaxTx

RECURSIVE Pow10(_)
Pow10(n) == IF n = 0 THEN 1 ELSE 10 * Pow10(n - 1)

\* The value of a Decimal in units of 10^-UnitScale.
Units(d) == d.m * Pow10(UnitScale - d.e)

NoAmount == [none |-> TRUE]

\* Amounts a row can carry: whole amounts, a negative one, one with five
\* fractional digits and a negative one with five fractional digits.
Amounts ==
    {[m |-> k, e |-> 0] : k \in 1..MaxAmount}
        \cup {[m |-> -1, e |-> 0], [m |-> 1, e |-> PrecisionLimit + 1],
              [m |-> -1, e |-> PrecisionLimit + 1]}

\* The type column of a row, as the string the CSV carries.
TypeStrings ==
    {"deposit", "withdrawal", "dispute", "Dispute", "resolve", "chargeback",
     "invalid_type"}

\* str::to_lowercase on the strings above.
to_lowercase(s) == IF s = "Dispute" THEN "dispute" ELSE s

\* TxType::from_str: the variant, or the error "Unknown transaction type".
from_str(s) ==
    LET l == to_lowercase(s)
    IN  IF l \in {"deposit", "withdrawal", "dispute", "resolve", "chargeback"}
        THEN l
        ELSE "unknown"

\* struct Record.  The rows of a deposit or a withdrawal carry any amount or
\* none; the other rows carry none (their amount column is never read).
Record ==
    [tx_type : {s \in TypeStrings : from_str(s) \in {"deposit", "withdrawal"}},
     client : Clients, tx : TxIds, amount : Amounts \cup {NoAmount}]
        \cup [tx_type : {s \in TypeStrings :
                            from_str(s) \notin {"deposit", "withdrawal"}},
              client : Clients, tx : TxIds, amount : {NoAmount}]

is_sign_negative(d) == d.m < 0

\* A precision check that lets one more fractional digit pass.
has_valid_precision_OneMore(d) == d.e <= PrecisionLimit + 1

has_valid_precision(d) == d.e <= PrecisionLimit

\* ---------------------------------------------------------------- Account
AccountNew == [available |-> 0, held |-> 0, total |-> 0, locked |-> FALSE]

\* Every Account method returns [err, account]: err = "Ok" and the mutated
\* account, or the rejection and the account as it was.
\* A deposit that forgets the locked check.
AccountDeposit_IgnoresLock(a, amount) ==
    [err |-> "Ok",
     account |-> [a EXCEPT !.available = @ + Units(amount),
                           !.total = @ + Units(amount)]]

AccountDeposit(a, amount) ==
    IF a.locked
    THEN [err |-> "LockedAccount", account |-> a]
    ELSE [err |-> "Ok",
          account |-> [a EXCEPT !.available = @ + Units(amount),
                                !.total = @ + Units(amount)]]

\* A withdrawal that compares the amount with total instead of available.
AccountWithdraw_ChecksTotal(a, amount) ==
    IF a.locked
    THEN [err |-> "LockedAccount", account |-> a]
    ELSE IF a.total >= Units(amount)
    THEN [err |-> "Ok",
          account |-> [a EXCEPT !.available = @ - Units(amount),
                                !.total = @ - Units(amount)]]
    ELSE [err |-> "InsufficientFunds", account |-> a]

AccountWithdraw(a, amount) ==
    IF a.locked
    THEN [err |-> "LockedAccount", account |-> a]
    ELSE IF a.available >= Units(amount)
    THEN [err |-> "Ok",
          account |-> [a EXCEPT !.available = @ - Units(amount),
                                !.total = @ - Units(amount)]]
    ELSE [err |-> "InsufficientFunds", account |-> a]

\* A dispute that holds the amount without looking at available.
AccountApplyDispute_Unchecked(a, amount) ==
    IF a.locked
    THEN [err |-> "LockedAccount", account |-> a]
    ELSE [err |-> "Ok",
          account |-> [a EXCEPT !.available = @ - Units(amount),
                                !.held = @ + Units(amount)]]

AccountApplyDispute(a, amount) ==
    IF a.locked
    THEN [err |-> "LockedAccount", account |-> a]
    ELSE IF a.available >= Units(amount)
    THEN [err |-> "Ok",
          account |-> [a EXCEPT !.available = @ - Units(amount),
                                !.held = @ + Units(amount)]]
    ELSE [err |-> "InsufficientAvailable", account |-> a]

\* A resolve that locks the account as a chargeback does.
AccountResolveDispute_Locks(a, amount) ==
    IF a.locked
    THEN [err |-> "LockedAccount", account |-> a]
    ELSE IF a.held >= Units(amount)
    THEN [err |-> "Ok",
          account |-> [a EXCEPT !.available = @ + Units(amount),
                                !.held = @ - Units(amount),
                                !.locked = TRUE]]
    ELSE [err |-> "InsufficientHeld", account |-> a]

\* A resolve that takes the amount off held and forgets to give it back to
\* available.
AccountResolveDispute_KeepsAvailable(a, amount) ==
    IF a.locked
    THEN [err |-> "LockedAccount", account |-> a]
    ELSE IF a.held >= Units(amount)
    THEN [err |-> "Ok", account |-> [a EXCEPT !.held = @ - Units(amount)]]
    ELSE [err |-> "InsufficientHeld", account |-> a]

AccountResolveDispute(a, amount) ==
    IF a.locked
    THEN [err |-> "LockedAccount", account |-> a]
    ELSE IF a.held >= Units(amount)
    THEN [err |-> "Ok",
          account |-> [a EXCEPT !.held = @ - Units(amount),
                                !.available = @ + Units(amount)]]
    ELSE [err |-> "InsufficientHeld", account |-> a]

\* A chargeback that forgets to lock the account.
AccountChargeback_NoLock(a, amount) ==
    IF a.locked
    THEN [err |-> "LockedAccount", account |-> a]
    ELSE IF a.held >= Units(amount)
    THEN [err |-> "Ok",
          account |-> [a EXCEPT !.total = @ - Units(amount),
                                !.held = @ - Units(amount)]]
    ELSE [err |-> "InsufficientHeld", account |-> a]

\* A chargeback that forgets to take the amount off total.
AccountChargeback_KeepsTotal(a, amount) ==
    IF a.locked
    THEN [err |-> "LockedAccount", account |-> a]
    ELSE IF a.held >= Units(amount)
    THEN [err |-> "Ok",
          account |-> [a EXCEPT !.held = @ - Units(amount),
                                !.locked = TRUE]]
    ELSE [err |-> "InsufficientHeld", account |-> a]

AccountChargeback(a, amount) ==
    IF a.locked
    THEN [err |-> "LockedAccount", account |-> a]
    ELSE IF a.held >= Units(amount)
    THEN [err |-> "Ok",
          account |-> [a EXCEPT !.total = @ - Units(amount),
                                !.held = @ - Units(amount),
                                !.locked = TRUE]]
    ELSE [err |-> "InsufficientHeld", account |-> a]

\* ------------------------------------------------------------ map helpers
\* HashMap::insert
MapInsert(map, k, v) ==
    [x \in (DOMAIN map) \cup {k} |-> IF x = k THEN v ELSE map[x]]

\* --------------------------------------------------------------- handlers
\* Every handler returns [err, account, transactions, disputes].
Result(e, a, t, d) ==
    [err |-> e, account |-> a, transactions |-> t, disputes |-> d]

\* A deposit handler without the duplicate check.
process_deposit_NoDuplicateCheck(record, account, txs, disp) ==
    IF record.amount = NoAmount
    THEN Result("MissingAmount", account, txs, disp)
    ELSE IF is_sign_negative(record.amount)
    THEN Result("NegativeAmount", account, txs, disp)
    ELSE IF ~has_valid_precision(record.amount)
    THEN Result("PrecisionExceeded", account, txs, disp)
    ELSE LET r == AccountDeposit(account, record.amount)
         IN  IF r.err # "Ok"
             THEN Result(r.err, account, txs, disp)
             ELSE Result("Ok", r.account,
                         MapInsert(txs, record.tx, record), disp)

process_deposit(record, account, txs, disp) ==
    IF record.tx \in DOMAIN txs
    THEN Result("DuplicateTransactionId", account, txs, disp)
    ELSE IF record.amount = NoAmount
    THEN Result("MissingAmount", account, txs, disp)
    ELSE IF is_sign_negative(record.amount)
    THEN Result("NegativeAmount", account, txs, disp)
    ELSE IF ~has_valid_precision(record.amount)
    THEN Result("PrecisionExceeded", account, txs, disp)
    ELSE LET r == AccountDeposit(account, record.amount)
         IN  IF r.err # "Ok"
             THEN Result(r.err, account, txs, disp)
             ELSE Result("Ok", r.account,
                         MapInsert(txs, record.tx, record), disp)

\* A withdrawal handler that records the row in History before it calls
\* withdraw.
process_withdrawal_RecordsFirst(record, account, txs, disp) ==
    IF record.tx \in DOMAIN txs
    THEN Result("DuplicateTransactionId", account, txs, disp)
    ELSE IF record.amount = NoAmount
    THEN Result("MissingAmount", account, txs, disp)
    ELSE IF is_sign_negative(record.amount)
    THEN Result("NegativeAmount", account, txs, disp)
    ELSE IF ~has_valid_precision(record.amount)
    THEN Result("PrecisionExceeded", account, txs, disp)
    ELSE LET r == AccountWithdraw(account, record.amount)
         IN  Result(r.err, r.account, MapInsert(txs, record.tx, record), disp)

process_withdrawal(record, account, txs, disp) ==
    IF record.tx \in DOMAIN txs
    THEN Result("DuplicateTransactionId", account, txs, disp)
    ELSE IF record.amount = NoAmount
    THEN Result("MissingAmount", account, txs, disp)
    ELSE IF is_sign_negative(record.amount)
    THEN Result("NegativeAmount", account, txs, disp)
    ELSE IF ~has_valid_precision(record.amount)
    THEN Result("PrecisionExceeded", account, txs, disp)
    ELSE LET r == AccountWithdraw(account, record.amount)
         IN  IF r.err # "Ok"
             THEN Result(r.err, account, txs, disp)
             ELSE Result("Ok", r.account,
                         MapInsert(txs, record.tx, record), disp)

\* A dispute handler that remembers the dispute of a tx it has not seen yet.
process_dispute_Remembers(record, account, txs, disp) ==
    IF record.tx \notin DOMAIN txs
    THEN Result("TransactionNotFound", account, txs, disp \cup {record.tx})
    ELSE IF to_lowercase(txs[record.tx].tx_type) # "deposit"
    THEN Result("NotDisputable", account, txs, disp)
    ELSE IF record.tx \in disp
    THEN Result("AlreadyDisputed", account, txs, disp)
    ELSE IF txs[record.tx].amount = NoAmount
    THEN Result("MissingAmount", account, txs, disp)
    ELSE LET r == AccountApplyDispute(account, txs[record.tx].amount)
         IN  IF r.err # "Ok"
             THEN Result(r.err, account, txs, disp)
             ELSE Result("Ok", r.account, txs, disp \cup {record.tx})

\* A dispute handler that takes any recorded row, not only a deposit.
process_dispute_AnyType(record, account, txs, disp) ==
    IF record.tx \notin DOMAIN txs
    THEN Result("TransactionNotFound", account, txs, disp)
    ELSE IF record.tx \in disp
    THEN Result("AlreadyDisputed", account, txs, disp)
    ELSE IF txs[record.tx].amount = NoAmount
    THEN Result("MissingAmount", account, txs, disp)
    ELSE LET r == AccountApplyDispute(account, txs[record.tx].amount)
         IN  IF r.err # "Ok"
             THEN Result(r.err, account, txs, disp)
             ELSE Result("Ok", r.account, txs, disp \cup {record.tx})

\* A dispute handler that registers the tx before the account accepts it.
process_dispute_RegistersFirst(record, account, txs, disp) ==
    IF record.tx \notin DOMAIN txs
    THEN Result("TransactionNotFound", account, txs, disp)
    ELSE IF to_lowercase(txs[record.tx].tx_type) # "deposit"
    THEN Result("NotDisputable", account, txs, disp)
    ELSE IF record.tx \in disp
    THEN Result("AlreadyDisputed", account, txs, disp)
    ELSE IF txs[record.tx].amount = NoAmount
    THEN Result("MissingAmount", account, txs, disp)
    ELSE LET r == AccountApplyDispute(account, txs[record.tx].amount)
         IN  IF r.err # "Ok"
             THEN Result(r.err, account, txs, disp \cup {record.tx})
             ELSE Result("Ok", r.account, txs, disp \cup {record.tx})

process_dispute(record, account, txs, disp) ==
    IF record.tx \notin DOMAIN txs
    THEN Result("TransactionNotFound", account, txs, disp)
    ELSE IF to_lowercase(txs[record.tx].tx_type) # "deposit"
    THEN Result("NotDisputable", account, txs, disp)
    ELSE IF record.tx \in disp
    THEN Result("AlreadyDisputed", account, txs, disp)
    ELSE IF txs[record.tx].amount = NoAmount
    THEN Result("MissingAmount", account, txs, disp)
    ELSE LET r == AccountApplyDispute(account, txs[record.tx].amount)
         IN  IF r.err # "Ok"
             THEN Result(r.err, account, txs, disp)
             ELSE Result("Ok", r.account, txs, disp \cup {record.tx})

\* A resolve handler that forgets to remove the tx from the disputes.
process_resolve_KeepsDispute(record, account, txs, disp) ==
    IF record.tx \notin disp
    THEN Result("NotDisputed", account, txs, disp)
    ELSE IF record.tx \notin DOMAIN txs
    THEN Result("TransactionNotFound", account, txs, disp)
    ELSE IF txs[record.tx].amount = NoAmount
    THEN Result("MissingAmount", account, txs, disp)
    ELSE LET r == AccountResolveDispute(account, txs[record.tx].amount)
         IN  IF r.err # "Ok"
             THEN Result(r.err, account, txs, disp)
             ELSE Result("Ok", r.account, txs, disp)

process_resolve(record, account, txs, disp) ==
    IF record.tx \notin disp
    THEN Result("NotDisputed", account, txs, disp)
    ELSE IF record.tx \notin DOMAIN txs
    THEN Result("TransactionNotFound", account, txs, disp)
    ELSE IF txs[record.tx].amount = NoAmount
    THEN Result("MissingAmount", account, txs, disp)
    ELSE LET r == AccountResolveDispute(account, txs[record.tx].amount)
         IN  IF r.err # "Ok"
             THEN Result(r.err, account, txs, disp)
             ELSE Result("Ok", r.account, txs, disp \ {record.tx})

process_chargeback(record, account, txs, disp) ==
    IF record.tx \notin disp
    THEN Result("NotDisputed", account, txs, disp)
    ELSE IF record.tx \notin DOMAIN txs
    THEN Result("TransactionNotFound", account, txs, disp)
    ELSE IF txs[record.tx].amount = NoAmount
    THEN Result("MissingAmount", account, txs, disp)
    ELSE LET r == AccountChargeback(account, txs[record.tx].amount)
         IN  IF r.err # "Ok"
             THEN Result(r.err, account, txs, disp)
             ELSE Result("Ok", r.account, txs, disp \ {record.tx})

\* ------------------------------------------------------------------ router
\* process_transaction returns [err, accounts, transactions, disputes].
Outcome(e, accs, t, d) ==
    [err |-> e, accounts |-> accs, transactions |-> t, disputes |-> d]

\* A Deposit arm that stores the account whatever the handler returned.
DepositArm_Eager(record, accs, txs, disp) ==
    LET account == IF record.client \in DOMAIN accs
                   THEN accs[record.client]
                   ELSE AccountNew
        r == process_deposit(record, account, txs, disp)
    IN  Outcome(r.err, MapInsert(accs, record.client, r.account),
                r.transactions, r.disputes)

\* The Deposit arm: the handler works on a clone of the account (or on a
\* new one), and the clone is stored only when the handler returned Ok.
DepositArm(record, accs, txs, disp) ==
    LET account == IF record.client \in DOMAIN accs
                   THEN accs[record.client]
                   ELSE AccountNew
        r == process_deposit(record, account, txs, disp)
    IN  IF r.err # "Ok"
        THEN Outcome(r.err, accs, txs, disp)
        ELSE Outcome("Ok", MapInsert(accs, record.client, r.account),
                     r.transactions, r.disputes)

\* Arms that create the account when the client has none.
ExistingAccountArm_LazyCreate(kind, record, accs, txs, disp) ==
    LET account == IF record.client \in DOMAIN accs
                   THEN accs[record.client]
                   ELSE AccountNew
        r == CASE kind = "withdrawal" ->
                    process_withdrawal(record, account, txs, disp)
               [] kind = "dispute" ->
                    process_dispute(record, account, txs, disp)
               [] kind = "resolve" ->
                    process_resolve(record, account, txs, disp)
               [] kind = "chargeback" ->
                    process_chargeback(record, account, txs, disp)
    IN  Outcome(r.err, MapInsert(accs, record.client, r.account),
                r.transactions, r.disputes)

\* The other arms: the handler works on the account in place (get_mut).
ExistingAccountArm(kind, record, accs, txs, disp) ==
    IF record.client \notin DOMAIN accs
    THEN Outcome("UnknownAccount", accs, txs, disp)
    ELSE LET account == accs[record.client]
             r == CASE kind = "withdrawal" ->
                         process_withdrawal(record, account, txs, disp)
                    [] kind = "dispute" ->
                         process_dispute(record, account, txs, disp)
                    [] kind = "resolve" ->
                         process_resolve(record, account, txs, disp)
                    [] kind = "chargeback" ->
                         process_chargeback(record, account, txs, disp)
         IN  Outcome(r.err, [accs EXCEPT ![record.client] = r.account],
                     r.transactions, r.disputes)

process_transaction(record, accs, txs, disp) ==
    LET kind == from_str(record.tx_type)
    IN  IF kind = "unknown"
        THEN Outcome("UnknownTransactionType", accs, txs, disp)
        ELSE IF kind = "deposit"
        THEN DepositArm(record, accs, txs, disp)
        ELSE ExistingAccountArm(kind, record, accs, txs, disp)

\* --------------------------------------------------------------- the run
VARIABLES
    accounts,       \* main: HashMap<u16, Account>
    transactions,   \* main: HashMap<u32, Record>
    disputes,       \* main: HashSet<u32>
    pc,             \* main: "reading" in the loop, "done" after the balances
                    \* were written, "aborted" when main returned Err
    exit,           \* what main returned: "none" (it runs), "Ok" or the error
    output,         \* the rows written to stdout
    nread,          \* the number of rows the loop has taken from the reader
    pending,        \* history: the tx on which a Dispute succeeded and no
                    \* Resolve or Chargeback has succeeded since
    kept,           \* history: the state of the run over the accepted rows
                    \* alone, and the number n of these rows
    forfeited       \* history: per client, the sum of the amounts that the
                    \* Chargebacks that succeeded took off its account

vars ==
    <<accounts, transactions, disputes, pc, exit, output, nread, pending, kept,
      forfeited>>

EmptyMap == <<>>

NoOutput == [written |-> FALSE, rows |-> {}]

\* format!("{:.4}", balance): the balance in units of 10^-4.  Every balance is
\* a sum of accepted amounts, which have at most four fractional digits.
Format4(units) == units \div Pow10(UnitScale - PrecisionLimit)

write_accounts_to_csv(accs) ==
    [written |-> TRUE,
     rows |-> {[client |-> c,
                available |-> Format4(accs[c].available),
                held |-> Format4(accs[c].held),
                total |-> Format4(accs[c].total),
                locked |-> accs[c].locked] : c \in DOMAIN accs}]

Init ==
    /\ accounts = EmptyMap
    /\ transactions = EmptyMap
    /\ disputes = {}
    /\ pc = "reading"
    /\ exit = "none"
    /\ output = NoOutput
    /\ nread = 0
    /\ pending = {}
    /\ kept = [accounts |-> EmptyMap, transactions |-> EmptyMap,
               disputes |-> {}, n |-> 0]
    /\ forfeited = [c \in Clients |-> 0]

\* The tx with a Dispute that succeeded and is not yet closed by a Resolve or
\* Chargeback that succeeded, after record ended in err.
PendingAfter(p, record, err) ==
    IF err # "Ok"
    THEN p
    ELSE IF from_str(record.tx_type) = "dispute"
    THEN p \cup {record.tx}
    ELSE IF from_str(record.tx_type) \in {"resolve", "chargeback"}
    THEN p \ {record.tx}
    ELSE p

\* The run over the accepted rows alone: it is fed record only when the run
\* itself accepted it.
KeptAfter(k, record, err) ==
    IF err # "Ok"
    THEN k
    ELSE LET o == process_transaction(record, k.accounts, k.transactions,
                                      k.disputes)
         IN  [accounts |-> o.accounts, transactions |-> o.transactions,
              disputes |-> o.disputes, n |-> k.n + 1]

\* The amounts taken off each account by the Chargebacks that succeeded,
\* after record ended in err: a Chargeback that succeeds takes the amount of
\* the record of its tx off the account of its client.
ForfeitedAfter(f, record, err, txs) ==
    IF err = "Ok" /\ from_str(record.tx_type) = "chargeback"
    THEN [f EXCEPT ![record.client] = @ + Units(txs[record.tx].amount)]
    ELSE f

\* A loop that returns the Err of process_transaction from main.
AfterRecord_Propagates(err) == IF err = "Ok" THEN "none" ELSE err

\* What main returns after process_transaction returned err: nothing, the
\* loop prints the message of an Err and goes on with the next row.
AfterRecord(err) == "none"

\* What main returns on a row that does not deserialize: result? returns the
\* error.
AfterParseError == "ParseError"

\* One iteration of the loop of main on a row that deserialized.
ProcessRecord(record) ==
    /\ pc = "reading"
    /\ nread < MaxRecords
    /\ nread' = nread + 1
    /\ LET o == process_transaction(record, accounts, transactions, disputes)
       IN  /\ accounts' = o.accounts
           /\ transactions' = o.transactions
           /\ disputes' = o.disputes
           /\ exit' = AfterRecord(o.err)
           /\ pending' = PendingAfter(pending, record, o.err)
           /\ kept' = KeptAfter(kept, record, o.err)
           /\ forfeited' = ForfeitedAfter(forfeited, record, o.err,
                                          transactions)
    /\ pc' = IF exit' = "none" THEN "reading" ELSE "aborted"
    /\ UNCHANGED output

\* One iteration of the loop of main on a row that does not deserialize
\* (a client or tx that is not a number, a row of the wrong length).
ParseFailure ==
    /\ pc = "reading"
    /\ nread < MaxRecords
    /\ nread' = nread + 1
    /\ exit' = AfterParseError
    /\ pc' = IF exit' = "none" THEN "reading" ELSE "aborted"
    /\ UNCHANGED <<accounts, transactions, disputes, output, pending, kept,
                   forfeited>>

\* The reader is exhausted: main writes the accounts and returns Ok.
EndOfStream ==
    /\ pc = "reading"
    /\ output' = write_accounts_to_csv(accounts)
    /\ pc' = "done"
    /\ exit' = "Ok"
    /\ UNCHANGED <<accounts, transactions, disputes, nread, pending, kept,
                   forfeited>>

Next ==
    \/ \E record \in Record : ProcessRecord(record)
    \/ ParseFailure
    \/ EndOfStream

Spec == Init /\ [][Next]_vars

\* ------------------------------------------------------------ properties
\* What process_transaction returns for record in the current state.
Run(record) == process_transaction(record, accounts, transactions, disputes)

\* The outcome o leaves the account map, History and DisputeRegistry alone.
Same(o) ==
    /\ o.accounts = accounts
    /\ o.transactions = transactions
    /\ o.disputes = disputes

Kind(record) == from_str(record.tx_type)

Known(client) == client \in DOMAIN accounts

\* The loop of main is running: the router is only called in such a state.
Reading == pc = "reading"

\* The loop takes one more row in this state.
CanRead == Reading /\ nread < MaxRecords

\* The number of rows the router has rejected so far.
Rejected == nread - kept.n - (IF exit = "ParseError" THEN 1 ELSE 0)

Rejections ==
    {"UnknownTransactionType", "UnknownAccount", "LockedAccount",
     "DuplicateTransactionId", "MissingAmount", "NegativeAmount",
     "PrecisionExceeded", "InsufficientFunds", "InsufficientAvailable",
     "InsufficientHeld", "TransactionNotFound", "NotDisputable",
     "AlreadyDisputed", "NotDisputed"}

\* C1: in every reachable state every account of the account map has
\* total = available + held.
C1_TotalIsAvailablePlusHeld ==
    \A c \in DOMAIN accounts :
        accounts[c].total = accounts[c].available + accounts[c].held

\* C1 witness: a dispute has moved an account's funds to held, and a row has
\* been rejected.
C1_Witness ==
    /\ \E c \in DOMAIN accounts :
           accounts[c].held > 0 /\ accounts[c].total = accounts[c].held
    /\ Rejected > 0

\* C2: once an account is locked, every row addressed to its client is
\* rejected and the account (available, held, total, locked) stays as it is.
C2_LockedIsFrozen ==
    [][\A c \in DOMAIN accounts :
           accounts[c].locked =>
               /\ c \in DOMAIN accounts'
               /\ accounts'[c] = accounts[c]
               /\ \A r \in Record :
                      r.client = c =>
                          LET o == Run(r)
                          IN  o.err \in Rejections /\ Same(o)
      ]_vars

\* C2 witness: a chargeback has locked an account and a further deposit to it
\* is rejected as LockedAccount.
C2_Witness ==
    /\ Reading
    /\ kept.n = 3
    /\ \E r \in Record :
           /\ Kind(r) = "deposit"
           /\ Known(r.client)
           /\ accounts[r.client].locked
           /\ Run(r).err = "LockedAccount"

\* C3 as stated: a Deposit or Withdrawal whose tx is already in History is
\* rejected as DuplicateTransactionId whichever client sends it, and History
\* and the balances stay as they are.
C3_Original ==
    Reading => \A r \in Record :
        (Kind(r) \in {"deposit", "withdrawal"} /\ r.tx \in DOMAIN transactions)
            => LET o == Run(r)
               IN  o.err = "DuplicateTransactionId" /\ Same(o)

\* C3 amended: a Deposit or Withdrawal whose tx is already in History is
\* rejected, as UnknownAccount when it is a Withdrawal of a client without
\* account and as DuplicateTransactionId otherwise, and History (the entry of
\* tx included) and the balances stay as they are.
C3_DuplicateRejected ==
    Reading => \A r \in Record :
        (Kind(r) \in {"deposit", "withdrawal"} /\ r.tx \in DOMAIN transactions)
            => LET o == Run(r)
               IN  /\ o.err = IF Kind(r) = "withdrawal" /\ ~Known(r.client)
                              THEN "UnknownAccount"
                              ELSE "DuplicateTransactionId"
                   /\ Same(o)

\* C3 witness: a row has been rejected, and a deposit of another client than
\* the one that made the recorded deposit is rejected as a duplicate.
C3_Witness ==
    /\ Reading
    /\ Rejected > 0
    /\ \E r \in Record :
           /\ Kind(r) = "deposit"
           /\ r.tx \in DOMAIN transactions
           /\ transactions[r.tx].client # r.client
           /\ Run(r).err = "DuplicateTransactionId"

\* C4 as stated: a Resolve or Chargeback succeeds only on a tx with a pending
\* dispute and then removes it from the registry; otherwise it is rejected
\* as NotDisputed with no change; a Dispute on a tx in the registry is
\* rejected as AlreadyDisputed.
C4_Original ==
    Reading => \A r \in Record :
        /\ Kind(r) \in {"resolve", "chargeback"} =>
              LET o == Run(r)
              IN  /\ o.err = "Ok" =>
                         (r.tx \in pending /\ r.tx \notin o.disputes)
                  /\ r.tx \notin pending =>
                         (o.err = "NotDisputed" /\ Same(o))
        /\ (Kind(r) = "dispute" /\ r.tx \in disputes) =>
              Run(r).err = "AlreadyDisputed"

\* C4 amended: a Resolve or Chargeback succeeds only on a tx with a pending
\* dispute and then removes it from the registry; on a tx without pending
\* dispute it is rejected with no change, as NotDisputed when its client has
\* an account and as UnknownAccount when it has none; a Dispute on a tx in
\* the registry is rejected, as AlreadyDisputed when its client has an
\* account and as UnknownAccount when it has none.
C4_DisputeLifecycle ==
    Reading => \A r \in Record :
        /\ Kind(r) \in {"resolve", "chargeback"} =>
              LET o == Run(r)
              IN  /\ o.err = "Ok" =>
                         (r.tx \in pending /\ r.tx \notin o.disputes)
                  /\ r.tx \notin pending =>
                         /\ o.err = IF Known(r.client)
                                    THEN "NotDisputed"
                                    ELSE "UnknownAccount"
                         /\ Same(o)
        /\ (Kind(r) = "dispute" /\ r.tx \in disputes) =>
              Run(r).err = IF Known(r.client)
                           THEN "AlreadyDisputed"
                           ELSE "UnknownAccount"

\* C4 witness: a deposit was disputed and the dispute resolved (three rows
\* accepted, funds back in available, nothing pending), and a second Resolve
\* and a Chargeback on that tx are rejected as NotDisputed.
C4_Witness ==
    /\ Reading
    /\ kept.n = 3
    /\ pending = {}
    /\ \E r1, r2 \in Record :
           /\ Kind(r1) = "resolve"
           /\ Kind(r2) = "chargeback"
           /\ r1.tx = r2.tx
           /\ r1.client = r2.client
           /\ r1.tx \in DOMAIN transactions
           /\ Cardinality(DOMAIN transactions) = 1
           /\ Run(r1).err = "NotDisputed"
           /\ Run(r2).err = "NotDisputed"

\* C5: a row the router rejects leaves the account map, History and
\* DisputeRegistry as they were, and the same row applied again at once is
\* rejected with the same rejection, again with no change.
C5_RejectionIsIdempotent ==
    Reading => \A r \in Record :
        LET o == Run(r)
            again == process_transaction(r, o.accounts, o.transactions,
                                         o.disputes)
        IN  o.err # "Ok" =>
                /\ o.err \in Rejections
                /\ Same(o)
                /\ again.err = o.err
                /\ Same(again)

\* C5 witness: two rows have been rejected in a row after a deposit and the
\* state is that of the deposit alone; a withdrawal of more than the
\* available funds is rejected as InsufficientFunds.
C5_Witness ==
    /\ Reading
    /\ kept.n = 1
    /\ Rejected = 2
    /\ \E r \in Record :
           /\ Kind(r) = "withdrawal"
           /\ Run(r).err = "InsufficientFunds"

\* C6: an account enters the account map only through a Deposit that
\* succeeded; a rejected Deposit of a client without account leaves the client
\* absent and History untouched.
C6_AccountOnlyByDeposit ==
    Reading => \A r \in Record :
        LET o == Run(r)
        IN  /\ DOMAIN o.accounts # DOMAIN accounts =>
                  /\ Kind(r) = "deposit"
                  /\ o.err = "Ok"
                  /\ DOMAIN o.accounts = DOMAIN accounts \cup {r.client}
            /\ (Kind(r) = "deposit" /\ ~Known(r.client) /\ o.err # "Ok") =>
                  /\ r.client \notin DOMAIN o.accounts
                  /\ o.transactions = transactions

\* C6 witness: every row so far was rejected, no client has an account and
\* History is empty; deposits with too many digits, a negative amount and no
\* amount are rejected.
C6_Witness ==
    /\ Reading
    /\ Rejected >= 2
    /\ accounts = EmptyMap
    /\ transactions = EmptyMap
    /\ \A e \in {"PrecisionExceeded", "NegativeAmount", "MissingAmount"} :
           \E r \in Record : Kind(r) = "deposit" /\ Run(r).err = e

\* C7 as stated: when a Deposit of a client without account is rejected as a
\* duplicate, for its precision or as negative, the account exists afterwards
\* with available = held = total = 0 and locked = false.
C7_Original ==
    Reading => \A r \in Record :
        (Kind(r) = "deposit" /\ ~Known(r.client)) =>
            LET o == Run(r)
            IN  o.err \in {"DuplicateTransactionId", "PrecisionExceeded",
                           "NegativeAmount"}
                    => /\ r.client \in DOMAIN o.accounts
                       /\ o.accounts[r.client] = AccountNew

\* C7 amended: when a Deposit of a client without account is rejected as a
\* duplicate, for its precision or as negative, no account is created: the
\* client is still absent from the account map afterwards.
C7_RejectedDepositCreatesNothing ==
    Reading => \A r \in Record :
        (Kind(r) = "deposit" /\ ~Known(r.client)) =>
            LET o == Run(r)
            IN  o.err \in {"DuplicateTransactionId", "PrecisionExceeded",
                           "NegativeAmount"}
                    => r.client \notin DOMAIN o.accounts

\* C7 witness: a deposit is in History, a row has been rejected, and the
\* deposit of a client without account under the recorded tx is rejected as
\* a duplicate.
C7_Witness ==
    /\ Reading
    /\ Rejected > 0
    /\ \E r \in Record :
           /\ Kind(r) = "deposit"
           /\ ~Known(r.client)
           /\ r.tx \in DOMAIN transactions
           /\ Run(r).err = "DuplicateTransactionId"

\* C8: a Withdrawal, Dispute, Resolve or Chargeback of a client without
\* account is rejected as UnknownAccount whatever its tx and amount, the
\* client stays absent and History and DisputeRegistry are unchanged.
C8_UnknownAccountFirst ==
    Reading => \A r \in Record :
        (/\ Kind(r) \in {"withdrawal", "dispute", "resolve", "chargeback"}
         /\ ~Known(r.client))
            => LET o == Run(r)
               IN  /\ o.err = "UnknownAccount"
                   /\ r.client \notin DOMAIN o.accounts
                   /\ Same(o)

\* C8 witness: another client's deposit is under dispute, a row has been
\* rejected, and the chargeback of a client without account on the disputed
\* tx is rejected as UnknownAccount.
C8_Witness ==
    /\ Reading
    /\ Rejected > 0
    /\ \E r \in Record :
           /\ Kind(r) = "chargeback"
           /\ ~Known(r.client)
           /\ r.tx \in disputes
           /\ Run(r).err = "UnknownAccount"

\* C9 as stated: a row that fails to parse is skipped and never ends the
\* run: main does not return the parse error.
C9_ParseFailureNotFatal ==
    exit # "ParseError" /\ pc # "aborted"

\* C10: a row the router rejects never stops the stream (main never returns
\* a rejection of the router), and the account map, History and
\* DisputeRegistry are those of the run over the accepted rows alone.
C10_RejectedRowsAreTransparent ==
    /\ exit \notin Rejections
    /\ pc = "aborted" => exit = "ParseError"
    /\ kept.accounts = accounts
    /\ kept.transactions = transactions
    /\ kept.disputes = disputes

\* C10 witness: a row was rejected and rows were accepted, and the run ended
\* with Ok and wrote the balances of the accounts.
C10_Witness ==
    /\ pc = "done"
    /\ exit = "Ok"
    /\ output.written
    /\ Cardinality(output.rows) = Cardinality(DOMAIN accounts)
    /\ Rejected >= 1
    /\ kept.n >= 2

\* tx is in History as a deposit.
IsDeposit(tx) ==
    tx \in DOMAIN transactions
        /\ to_lowercase(transactions[tx].tx_type) = "deposit"

\* The amount of the record of tx in History, in units.
AmountOf(tx) == Units(transactions[tx].amount)

\* The amount is one that process_deposit and process_withdrawal accept:
\* present, not negative, with at most PrecisionLimit fractional digits.
ValidAmount(amount) ==
    /\ amount # NoAmount
    /\ amount.m >= 0
    /\ amount.e <= PrecisionLimit

\* The row of the given kind, client and tx, without amount.
Row(kind, client, tx) ==
    [tx_type |-> kind, client |-> client, tx |-> tx, amount |-> NoAmount]

\* C11: a Dispute that succeeds moves the deposit's amount from available to
\* held of the account (total unchanged) and puts tx in the registry; a
\* Resolve that succeeds moves it back and removes tx; the Resolve of the same
\* client right after the Dispute succeeds and restores the account and the
\* registry to what they were before the Dispute.
C11_DisputeThenResolveRestores ==
    CanRead => \A r \in Record :
        /\ Kind(r) = "dispute" =>
              LET o == Run(r)
                  c == r.client
                  back == process_transaction(Row("resolve", c, r.tx),
                              o.accounts, o.transactions, o.disputes)
              IN  o.err = "Ok" =>
                      /\ IsDeposit(r.tx)
                      /\ r.tx \notin disputes
                      /\ o.accounts =
                             [accounts EXCEPT
                                 ![c].available = @ - AmountOf(r.tx),
                                 ![c].held = @ + AmountOf(r.tx)]
                      /\ o.accounts[c].total = accounts[c].total
                      /\ o.disputes = disputes \cup {r.tx}
                      /\ back.err = "Ok"
                      /\ back.accounts = accounts
                      /\ back.disputes = disputes
                      /\ back.transactions = transactions
        /\ Kind(r) = "resolve" =>
              LET o == Run(r)
                  c == r.client
              IN  o.err = "Ok" =>
                      /\ r.tx \in disputes
                      /\ o.accounts =
                             [accounts EXCEPT
                                 ![c].held = @ - AmountOf(r.tx),
                                 ![c].available = @ + AmountOf(r.tx)]
                      /\ o.disputes = disputes \ {r.tx}

\* C11 witness: three rows were accepted, a deposit, its dispute and the
\* resolve: one record in History, nothing disputed, nobody locked, and the
\* account holds the deposit in available again.
C11_Witness ==
    /\ nread = 3
    /\ kept.n = 3
    /\ disputes = {}
    /\ pending = {}
    /\ \E t \in DOMAIN transactions :
           /\ DOMAIN transactions = {t}
           /\ LET c == transactions[t].client
              IN  accounts[c] = [available |-> AmountOf(t), held |-> 0,
                                 total |-> AmountOf(t), locked |-> FALSE]

\* C12 as stated: a Chargeback that succeeds takes the deposit's amount off
\* held and total, leaves available, locks the account and removes tx from
\* the registry; every Deposit of that client afterwards is rejected as
\* LockedAccount and leaves the balances unchanged.
C12_Original ==
    Reading => \A r \in Record :
        Kind(r) = "chargeback" =>
            LET o == Run(r)
                c == r.client
            IN  o.err = "Ok" =>
                    /\ o.accounts =
                           [accounts EXCEPT
                               ![c].held = @ - AmountOf(r.tx),
                               ![c].total = @ - AmountOf(r.tx),
                               ![c].locked = TRUE]
                    /\ o.disputes = disputes \ {r.tx}
                    /\ \A d \in Record :
                           (Kind(d) = "deposit" /\ d.client = c) =>
                               LET after == process_transaction(d, o.accounts,
                                                o.transactions, o.disputes)
                               IN  /\ after.err = "LockedAccount"
                                   /\ after.accounts = o.accounts

\* C12 amended: a Chargeback that succeeds takes the deposit's amount off held
\* and total, leaves available, locks the account and removes tx from the
\* registry; every Deposit of that client afterwards is rejected and leaves
\* the balances unchanged, as LockedAccount when its tx is not in History and
\* its amount is valid (a duplicate tx or a bad amount is rejected as such
\* first).
C12_ChargebackLocks ==
    Reading => \A r \in Record :
        Kind(r) = "chargeback" =>
            LET o == Run(r)
                c == r.client
            IN  o.err = "Ok" =>
                    /\ o.accounts =
                           [accounts EXCEPT
                               ![c].held = @ - AmountOf(r.tx),
                               ![c].total = @ - AmountOf(r.tx),
                               ![c].locked = TRUE]
                    /\ o.disputes = disputes \ {r.tx}
                    /\ \A d \in Record :
                           (Kind(d) = "deposit" /\ d.client = c) =>
                               LET after == process_transaction(d, o.accounts,
                                                o.transactions, o.disputes)
                               IN  /\ after.err \in Rejections
                                   /\ (d.tx \notin DOMAIN transactions
                                         /\ ValidAmount(d.amount))
                                          => after.err = "LockedAccount"
                                   /\ after.accounts = o.accounts
                                   /\ after.transactions = o.transactions

\* C12 witness: a deposit, its dispute and the chargeback were accepted: the
\* account is locked with nothing held and nothing left, the registry is
\* empty, and a valid deposit under a new tx is rejected as LockedAccount.
C12_Witness ==
    /\ Reading
    /\ kept.n = 3
    /\ disputes = {}
    /\ \E r \in Record :
           /\ Kind(r) = "deposit"
           /\ r.tx \notin DOMAIN transactions
           /\ ValidAmount(r.amount)
           /\ Known(r.client)
           /\ accounts[r.client] = [available |-> 0, held |-> 0, total |-> 0,
                                    locked |-> TRUE]
           /\ Run(r).err = "LockedAccount"

\* C13: a Withdrawal of a valid amount under a tx not in History, on an
\* existing unlocked account, succeeds exactly when available >= amount; then
\* available and total go down by the amount, held stays and the row enters
\* History; otherwise it is rejected as InsufficientFunds, and the balances
\* and History stay as they are.
C13_WithdrawalNeedsAvailable ==
    CanRead => \A r \in Record :
        (/\ Kind(r) = "withdrawal"
         /\ Known(r.client)
         /\ r.tx \notin DOMAIN transactions
         /\ ValidAmount(r.amount))
            => LET o == Run(r)
                   c == r.client
               IN  ~accounts[c].locked =>
                       IF accounts[c].available >= Units(r.amount)
                       THEN /\ o.err = "Ok"
                            /\ o.accounts =
                                   [accounts EXCEPT
                                       ![c].available = @ - Units(r.amount),
                                       ![c].total = @ - Units(r.amount)]
                            /\ o.accounts[c].held = accounts[c].held
                            /\ r.tx \in DOMAIN o.transactions
                            /\ o.transactions[r.tx] = r
                       ELSE /\ o.err = "InsufficientFunds"
                            /\ Same(o)

\* C13 witness: on one account the withdrawal of exactly what is available
\* succeeds and the withdrawal of more is rejected as InsufficientFunds.
C13_Witness ==
    /\ CanRead
    /\ \E r1, r2 \in Record :
           /\ Kind(r1) = "withdrawal"
           /\ Kind(r2) = "withdrawal"
           /\ r1.client = r2.client
           /\ Known(r1.client)
           /\ ValidAmount(r1.amount)
           /\ ValidAmount(r2.amount)
           /\ Units(r1.amount) = accounts[r1.client].available
           /\ Units(r2.amount) > accounts[r1.client].available
           /\ Run(r1).err = "Ok"
           /\ Run(r2).err = "InsufficientFunds"

\* tx is in History as a withdrawal.
IsWithdrawal(tx) ==
    tx \in DOMAIN transactions
        /\ to_lowercase(transactions[tx].tx_type) = "withdrawal"

\* C14 as stated: a Dispute on the tx of a Withdrawal of History is rejected
\* as NotDisputable, with the balances unchanged and tx not added to the
\* registry; no Withdrawal id is ever in the registry.
C14_Original ==
    /\ \A t \in disputes : ~IsWithdrawal(t)
    /\ CanRead => \A r \in Record :
           (Kind(r) = "dispute" /\ IsWithdrawal(r.tx))
               => LET o == Run(r)
                  IN  /\ o.err = "NotDisputable"
                      /\ Same(o)
                      /\ r.tx \notin o.disputes

\* C14 amended: a Dispute on the tx of a Withdrawal of History is rejected, as
\* NotDisputable when the client of the Dispute has an account and as
\* UnknownAccount when it has none, with the balances unchanged and tx not
\* added to the registry; no Withdrawal id is ever in the registry.
C14_WithdrawalNeverDisputed ==
    /\ \A t \in disputes : ~IsWithdrawal(t)
    /\ CanRead => \A r \in Record :
           (Kind(r) = "dispute" /\ IsWithdrawal(r.tx))
               => LET o == Run(r)
                  IN  /\ o.err = IF Known(r.client) THEN "NotDisputable"
                                                   ELSE "UnknownAccount"
                      /\ Same(o)
                      /\ r.tx \notin o.disputes

\* C14 witness: History holds a withdrawal, and the dispute of it by its own
\* client, whose available covers its amount, is rejected as NotDisputable.
C14_Witness ==
    /\ CanRead
    /\ \E r \in Record :
           /\ Kind(r) = "dispute"
           /\ IsWithdrawal(r.tx)
           /\ r.client = transactions[r.tx].client
           /\ accounts[r.client].available >= AmountOf(r.tx)
           /\ Run(r).err = "NotDisputable"

\* C15 as stated: a Deposit or Withdrawal whose amount has more than 4
\* fractional digits is rejected as PrecisionExceeded and one whose amount is
\* negative as NegativeAmount, with no balance change and nothing added to
\* History; every amount of History is non-negative with at most 4
\* fractional digits.
C15_Original ==
    /\ \A t \in DOMAIN transactions : ValidAmount(transactions[t].amount)
    /\ CanRead => \A r \in Record :
           (Kind(r) \in {"deposit", "withdrawal"} /\ r.amount # NoAmount)
               => LET o == Run(r)
                  IN  /\ r.amount.e > PrecisionLimit
                          => (o.err = "PrecisionExceeded" /\ Same(o))
                      /\ r.amount.m < 0
                          => (o.err = "NegativeAmount" /\ Same(o))

\* C15 amended: a Deposit or Withdrawal whose amount is negative or has more
\* than 4 fractional digits is rejected with no balance change and nothing
\* added to History; when its tx is not in History and, for a Withdrawal, the
\* client has an account, the rejection is NegativeAmount for a negative
\* amount and PrecisionExceeded for a non-negative one with more than 4
\* fractional digits.  Every amount of History is non-negative with at most 4
\* fractional digits.
C15_BadAmountRejected ==
    /\ \A t \in DOMAIN transactions : ValidAmount(transactions[t].amount)
    /\ CanRead => \A r \in Record :
           (/\ Kind(r) \in {"deposit", "withdrawal"}
            /\ r.amount # NoAmount
            /\ ~ValidAmount(r.amount))
               => LET o == Run(r)
                  IN  /\ o.err \in Rejections
                      /\ Same(o)
                      /\ (/\ r.tx \notin DOMAIN transactions
                          /\ Kind(r) = "withdrawal" => Known(r.client))
                             => o.err = IF r.amount.m < 0
                                        THEN "NegativeAmount"
                                        ELSE "PrecisionExceeded"

\* C15 witness: History holds a record, a row was rejected, and in this
\* state a deposit with five fractional digits is rejected as
\* PrecisionExceeded and a negative withdrawal from an existing account as
\* NegativeAmount.
C15_Witness ==
    /\ CanRead
    /\ Rejected >= 1
    /\ DOMAIN transactions # {}
    /\ \E r1, r2 \in Record :
           /\ Kind(r1) = "deposit"
           /\ r1.amount # NoAmount
           /\ r1.amount.e > PrecisionLimit
           /\ Run(r1).err = "PrecisionExceeded"
           /\ Kind(r2) = "withdrawal"
           /\ Known(r2.client)
           /\ r2.amount # NoAmount
           /\ r2.amount.m < 0
           /\ Run(r2).err = "NegativeAmount"

\* C16 as stated: a Dispute on a deposit whose amount is more than the
\* account's available is rejected as InsufficientAvailable, with the
\* balances unchanged and tx not added to the registry, so that a Resolve or
\* a Chargeback on tx afterwards is rejected as NotDisputed.
C16_Original ==
    CanRead => \A r \in Record :
        (/\ Kind(r) = "dispute"
         /\ Known(r.client)
         /\ IsDeposit(r.tx))
            => LET o == Run(r)
                   c == r.client
               IN  accounts[c].available < AmountOf(r.tx) =>
                       /\ o.err = "InsufficientAvailable"
                       /\ Same(o)
                       /\ r.tx \notin o.disputes
                       /\ \A k \in {"resolve", "chargeback"} :
                              process_transaction(Row(k, c, r.tx), o.accounts,
                                  o.transactions, o.disputes).err
                                  = "NotDisputed"

\* C16 amended: a Dispute on a deposit that is not under dispute, on an
\* unlocked account whose available is less than the deposit's amount, is
\* rejected as InsufficientAvailable, with the balances unchanged and tx not
\* added to the registry, so that a Resolve or a Chargeback of that client on
\* tx right afterwards is rejected as NotDisputed.
C16_DisputeNeedsAvailable ==
    CanRead => \A r \in Record :
        (/\ Kind(r) = "dispute"
         /\ Known(r.client)
         /\ IsDeposit(r.tx)
         /\ r.tx \notin disputes)
            => LET o == Run(r)
                   c == r.client
               IN  (~accounts[c].locked
                      /\ accounts[c].available < AmountOf(r.tx)) =>
                       /\ o.err = "InsufficientAvailable"
                       /\ Same(o)
                       /\ r.tx \notin o.disputes
                       /\ \A k \in {"resolve", "chargeback"} :
                              process_transaction(Row(k, c, r.tx), o.accounts,
                                  o.transactions, o.disputes).err
                                  = "NotDisputed"

\* C16 witness: a client has withdrawn part of a deposit, and the dispute of
\* that deposit is rejected as InsufficientAvailable.
C16_Witness ==
    /\ CanRead
    /\ \E r \in Record :
           /\ Kind(r) = "dispute"
           /\ IsDeposit(r.tx)
           /\ r.client = transactions[r.tx].client
           /\ \E w \in DOMAIN transactions :
                  /\ IsWithdrawal(w)
                  /\ transactions[w].client = r.client
           /\ accounts[r.client].available > 0
           /\ Run(r).err = "InsufficientAvailable"

\* C17: in every reachable state every account has available >= 0,
\* held >= 0 and total >= 0.
C17_BalancesNonNegative ==
    \A c \in DOMAIN accounts :
        /\ accounts[c].available >= 0
        /\ accounts[c].held >= 0
        /\ accounts[c].total >= 0

\* C17 witness: all the funds of an account are held by a dispute, and a
\* withdrawal from it is rejected as InsufficientFunds.
C17_Witness ==
    /\ Reading
    /\ \E r \in Record :
           /\ Kind(r) = "withdrawal"
           /\ Known(r.client)
           /\ accounts[r.client].available = 0
           /\ accounts[r.client].held > 0
           /\ Run(r).err = "InsufficientFunds"

\* C18 as stated: a Dispute on a tx that is not in History is rejected as
\* TransactionNotFound and changes nothing; a Deposit with that tx right
\* afterwards is applied as it would have been without the Dispute, and its
\* tx is not under dispute.
C18_Original ==
    CanRead => \A r \in Record :
        (Kind(r) = "dispute" /\ r.tx \notin DOMAIN transactions)
            => LET o == Run(r)
               IN  /\ o.err = "TransactionNotFound"
                   /\ Same(o)
                   /\ \A d \in Record :
                          (Kind(d) = "deposit" /\ d.tx = r.tx) =>
                              LET after == process_transaction(d, o.accounts,
                                               o.transactions, o.disputes)
                              IN  /\ after = Run(d)
                                  /\ d.tx \notin after.disputes

\* C18 amended: a Dispute on a tx that is not in History is rejected, as
\* TransactionNotFound when the client of the Dispute has an account and as
\* UnknownAccount when it has none, and changes nothing; a Deposit with that
\* tx right afterwards is applied as it would have been without the Dispute,
\* and its tx is not under dispute.
C18_NoDisputeAhead ==
    CanRead => \A r \in Record :
        (Kind(r) = "dispute" /\ r.tx \notin DOMAIN transactions)
            => LET o == Run(r)
               IN  /\ o.err = IF Known(r.client) THEN "TransactionNotFound"
                                                ELSE "UnknownAccount"
                   /\ Same(o)
                   /\ \A d \in Record :
                          (Kind(d) = "deposit" /\ d.tx = r.tx) =>
                              LET after == process_transaction(d, o.accounts,
                                               o.transactions, o.disputes)
                              IN  /\ after = Run(d)
                                  /\ d.tx \notin after.disputes

\* C18 witness: a row was rejected, a client with an account disputes a tx
\* that History does not hold and is rejected as TransactionNotFound, and the
\* deposit of that client under that tx is accepted.
C18_Witness ==
    /\ CanRead
    /\ Rejected > 0
    /\ \E r, d \in Record :
           /\ Kind(r) = "dispute"
           /\ Known(r.client)
           /\ r.tx \notin DOMAIN transactions
           /\ Run(r).err = "TransactionNotFound"
           /\ Kind(d) = "deposit"
           /\ d.client = r.client
           /\ d.tx = r.tx
           /\ Run(d).err = "Ok"

\* C19: an account only moves forward through NonExistent, Active, Locked: a
\* row never removes an account, a new account starts unlocked, a locked
\* account stays locked, and the only row that locks an account is a
\* Chargeback of its client that succeeds.
C19_AccountMovesForward ==
    Reading => \A r \in Record :
        LET o == Run(r)
        IN  /\ DOMAIN accounts \subseteq DOMAIN o.accounts
            /\ \A c \in DOMAIN o.accounts :
                   IF c \in DOMAIN accounts
                   THEN /\ accounts[c].locked => o.accounts[c].locked
                        /\ (~accounts[c].locked /\ o.accounts[c].locked)
                               => /\ Kind(r) = "chargeback"
                                  /\ r.client = c
                                  /\ o.err = "Ok"
                   ELSE ~o.accounts[c].locked

\* C19 witness: one client is locked, the other has no account yet, and a
\* deposit would create it.
C19_Witness ==
    /\ Reading
    /\ \E c \in DOMAIN accounts : accounts[c].locked
    /\ \E r \in Record :
           /\ Kind(r) = "deposit"
           /\ ~Known(r.client)
           /\ Run(r).err = "Ok"

\* C20: History changes only by a Deposit or a Withdrawal that succeeds, which
\* adds exactly its own row under its tx and leaves every other entry as it
\* was; a Dispute, a Resolve or a Chargeback never changes History; a
\* rejected Deposit or Withdrawal leaves its tx unrecorded, so that the same
\* tx on a deposit right afterwards is not rejected as a duplicate.
C20_HistoryAppendOnly ==
    CanRead => \A r \in Record :
        LET o == Run(r)
        IN  IF Kind(r) \in {"deposit", "withdrawal"} /\ o.err = "Ok"
            THEN /\ r.tx \notin DOMAIN transactions
                 /\ DOMAIN o.transactions = DOMAIN transactions \cup {r.tx}
                 /\ o.transactions[r.tx] = r
                 /\ \A t \in DOMAIN transactions :
                        o.transactions[t] = transactions[t]
            ELSE /\ o.transactions = transactions
                 /\ (/\ Kind(r) \in {"deposit", "withdrawal"}
                     /\ r.tx \notin DOMAIN transactions)
                        => \A d \in Record :
                               (Kind(d) = "deposit" /\ d.tx = r.tx) =>
                                   process_transaction(d, o.accounts,
                                       o.transactions, o.disputes).err
                                       # "DuplicateTransactionId"

\* C20 witness: History holds a disputed deposit, a withdrawal under a tx
\* that History does not hold is rejected for lack of funds, and the deposit
\* under that tx is accepted.
C20_Witness ==
    /\ CanRead
    /\ disputes # {}
    /\ \E r, d \in Record :
           /\ Kind(r) = "withdrawal"
           /\ r.tx \notin DOMAIN transactions
           /\ Run(r).err = "InsufficientFunds"
           /\ Kind(d) = "deposit"
           /\ d.tx = r.tx
           /\ Run(d).err = "Ok"

\* C21: in every reachable state every tx of the registry is a key of History
\* whose record is a deposit carrying an amount; so no Resolve and no
\* Chargeback is rejected as TransactionNotFound or MissingAmount.
C21_RegistryWithinHistory ==
    /\ \A t \in disputes :
           /\ t \in DOMAIN transactions
           /\ IsDeposit(t)
           /\ transactions[t].amount # NoAmount
    /\ CanRead => \A r \in Record :
           Kind(r) \in {"resolve", "chargeback"}
               => Run(r).err \notin {"TransactionNotFound", "MissingAmount"}

\* C21 witness: a deposit is under dispute; a resolve of it succeeds, and a
\* chargeback of a tx that History does not hold is rejected as NotDisputed.
C21_Witness ==
    /\ CanRead
    /\ disputes # {}
    /\ \E r1, r2 \in Record :
           /\ Kind(r1) = "resolve"
           /\ r1.tx \in disputes
           /\ Run(r1).err = "Ok"
           /\ Kind(r2) = "chargeback"
           /\ Known(r2.client)
           /\ r2.tx \notin DOMAIN transactions
           /\ Run(r2).err = "NotDisputed"

\* The sum of the amounts of the records of History under the tx of S, in
\* units.
RECURSIVE SumAmounts(_)
SumAmounts(S) ==
    IF S = {}
    THEN 0
    ELSE LET t == CHOOSE x \in S : TRUE
         IN  AmountOf(t) + SumAmounts(S \ {t})

\* The deposits of History made by client, as their tx.
DepositsOf(client) ==
    {t \in DOMAIN transactions :
        IsDeposit(t) /\ transactions[t].client = client}

\* C22: in every reachable state the held of every account is the sum of the
\* amounts of the deposits its client made whose tx is in the registry; a
\* Dispute, Resolve or Chargeback sent by another client than the one that
\* made the deposit changes no balance of any account.
C22_HeldIsDisputedDeposits ==
    /\ \A c \in DOMAIN accounts :
           accounts[c].held = SumAmounts(DepositsOf(c) \cap disputes)
    /\ Reading => \A r \in Record :
           (/\ Kind(r) \in {"dispute", "resolve", "chargeback"}
            /\ IsDeposit(r.tx)
            /\ transactions[r.tx].client # r.client)
               => Run(r).accounts = accounts

\* C23: a Chargeback on a tx succeeds at most once in a run: after a
\* Chargeback on tx succeeded, no Dispute on tx succeeds, whichever client
\* sends it (stated for the Dispute that comes right after the Chargeback),
\* so that no second Chargeback can forfeit the amount again.
C23_ChargebackAtMostOnce ==
    Reading => \A r \in Record :
        Kind(r) = "chargeback" =>
            LET o == Run(r)
            IN  o.err = "Ok" =>
                    \A c \in Clients :
                        process_transaction(Row("dispute", c, r.tx),
                            o.accounts, o.transactions, o.disputes).err
                            # "Ok"

\* The withdrawals of History made by client, as their tx.
WithdrawalsOf(client) ==
    {t \in DOMAIN transactions :
        IsWithdrawal(t) /\ transactions[t].client = client}

\* C24: in every reachable state the total of every account is the sum of the
\* amounts of its client's deposits of History, minus the sum of the amounts
\* of its client's withdrawals of History, minus the sum of the amounts that
\* the Chargebacks that succeeded took off the account.
C24_TotalIsLedger ==
    \A c \in Clients :
        IF c \in DOMAIN accounts
        THEN accounts[c].total =
                 SumAmounts(DepositsOf(c)) - SumAmounts(WithdrawalsOf(c))
                     - forfeited[c]
        ELSE /\ DepositsOf(c) = {}
             /\ WithdrawalsOf(c) = {}
             /\ forfeited[c] = 0

\* C24 witness: a Chargeback has taken a deposit off the account of a client,
\* whose total is what its deposits leave after it.
C24_Witness ==
    \E c \in DOMAIN accounts :
        /\ forfeited[c] > 0
        /\ DepositsOf(c) # {}
        /\ accounts[c].total = SumAmounts(DepositsOf(c)) - forfeited[c]

====
